---- MODULE Spec2Model ----
(***************************************************************************)
(* The terminal session manager of go-remote-term (package pkg/terminal):  *)
(* the session registry and its lock, the reaper, closeSession and         *)
(* terminateSession, the PTY output pump with its shell-exit notifier, and *)
(* the per-connection handler with its outbound poller and inbound reader. *)
(*                                                                         *)
(* Every goroutine is a process with a program counter.  A critical        *)
(* section that takes a lock, does not block inside and releases it is one *)
(* atomic action guarded by the lock being free.  The registry lock is a   *)
(* variable because the reaper keeps it over a whole tick.  time.Sleep is  *)
(* a step boundary: Go promises no upper bound on a sleep or on the time a *)
(* goroutine or a socket write takes.                                      *)
(***************************************************************************)
EXTENDS Integers, Sequences, FiniteSets, TLC

\* Bounds of the model.
MaxConns == 2
MaxSessions == 1
MaxBuf == 1
MaxTerminate == 1

Conns == 1..MaxConns
SessionIds == 1..MaxSessions
\* The empty session_id "" of a Message.
NoSession == 0
\* One sanitized byte of shell output, and the session_ended envelope.
Output == "o"
Ended == "E"
\* A client payload json.Unmarshal rejects (raw keystrokes).
Raw == [json |-> FALSE, object |-> FALSE, type |-> "", token |-> "", session_id |-> 0,
        rows |-> 0, cols |-> 0]
\* A client payload that is valid JSON but no object with the fields of a Message
\* (a number, a string, an array, a field of the wrong type): json.Unmarshal into
\* a Message returns an error for it.
Scalar == [json |-> TRUE, object |-> FALSE, type |-> "", token |-> "", session_id |-> 0,
           rows |-> 0, cols |-> 0]

\* A resize object whose rows do not fit the uint16 field Rows.
NegativeResize == [json |-> TRUE, object |-> TRUE, type |-> "resize", token |-> "",
                   session_id |-> 0, rows |-> -1, cols |-> 1]

VARIABLES
    sessions,       \* the registry: ids in the sessions map
    sessionsLock,   \* holder of sessionsLock: "free" or a task
    created,        \* number of session ids generated so far
    Connections,    \* TerminalSession.Connections
    OutputBuffer,   \* TerminalSession.OutputBuffer
    Expired,        \* now - LastActive > Options.SessionTimeout
    doneCloses,     \* number of close(session.Done)
    ptyCloses,      \* number of session.PTY.Close()
    signals,        \* number of SIGTERM sent to the process
    shellAlive,     \* the shell process runs
    pump,           \* position of bufferTerminalOutput
    pumpErr,        \* why the pump's PTY read failed
    notifier,       \* position of the pump's shell-exit goroutine
    audience,       \* connections attached when the PTY read failed
    termWaiting,    \* terminateSession calls that have not yet looked the id up
    termClosing,    \* terminateSession calls that found the id, before closeSession
    termTrue,       \* terminateSession calls that returned true
    reaperPC,       \* position of cleanupExpiredSessions
    reaperTodo,     \* registry entries the tick has still to visit
    reaperId,       \* the id the reaper passes to closeSession
    connPC,         \* position of HandleWebSocketWithOptions
    sess,           \* the handler's session
    isNewSession,   \* the handler's isNewSession
    authResp,       \* the auth_response written to the connection
    poller,         \* position of the outbound goroutine
    lastSize,       \* the poller's lastSize
    currentSize,    \* the poller's currentSize
    reader,         \* position of the inbound goroutine
    recv,           \* the buffer slices written to the connection, in order
    Token,          \* DefaultAuthProvider.Token, the configured token
    termResp,       \* number of terminate_response messages written to the connection
    termFrom,       \* connections whose terminate request started a terminateSession call
    winsize,        \* the window size of the session's PTY: <<rows, cols>>
    logged,         \* the messages of the "Received JSON control message" log lines
    sanPC,          \* position of a run of processTerminalOutput on a chunk and on its result
    data,           \* the bytes processTerminalOutput is called with
    output,         \* processTerminalOutput(data)
    resanitized,    \* processTerminalOutput(output)
    chainPC,        \* position of a run of Chain and of a request to its result
    middlewares,    \* the middlewares passed to Chain
    handler,        \* Chain's handler variable: the layers a request goes through
    idx,            \* Chain's loop index i
    calls,          \* what ran for the request, in order
    singleFile,     \* whether the server runs the handler of pkg/terminal/terminal.go
    Origin,         \* the Origin header of the connection's upgrade request
    AllowedOrigins, \* the package's AllowedOrigins
    inPC,           \* position of an inbound loop followed message by message
    inbox,          \* the messages its connection delivers, in order
    taken,          \* how many of them conn.ReadMessage has returned
    written,        \* the payloads session.PTY.Write has written, in order
    stamped,        \* how often the loop has set session.LastActive
    ptyOpen,        \* whether the session's PTY is still open
    replPC,         \* position of a call of replaceAllStringLiteral
    replInput,      \* the s it was called with
    replOld,        \* its old
    replNew,        \* its new
    replS,          \* its s: what is still to be searched
    replResult      \* its result

sessVars == <<Connections, OutputBuffer, Expired, doneCloses, ptyCloses, signals, shellAlive>>
pumpVars == <<pump, pumpErr, notifier, audience>>
termVars == <<termWaiting, termClosing, termTrue>>
reaperVars == <<reaperPC, reaperTodo, reaperId>>
handlerVars == <<connPC, sess, isNewSession, authResp>>
loopVars == <<poller, lastSize, currentSize, reader, recv>>
ackVars == <<termResp, termFrom>>
ctlVars == <<winsize, logged>>
sanVars == <<sanPC, data, output, resanitized>>
chainVars == <<chainPC, middlewares, handler, idx, calls>>
\* The state of the pure functions, which the session manager never touches.
replVars == <<replPC, replInput, replOld, replNew, replS, replResult>>
pureVars == <<sanVars, chainVars, replVars>>
\* What the build and the deployment fix before the first request.
setupVars == <<singleFile, Origin, AllowedOrigins>>
\* One inbound loop with the payloads it forwards.
inVars == <<inPC, inbox, taken, written, stamped, ptyOpen>>
\* What no step of the session manager changes.
apartVars == <<pureVars, setupVars, inVars>>
\* The state of the session manager.
termState == <<sessions, sessionsLock, created, sessVars, pumpVars, termVars, reaperVars,
               handlerVars, loopVars, Token, ackVars, ctlVars>>
vars == <<termState, apartVars>>

\* ------------------------------------------------------------------ helpers

\* A lock its holder may take again.
CanLockReentrant(task) == sessionsLock \in {"free", task}

\* sync.Mutex is not reentrant: Lock() returns only when no task holds the lock,
\* the caller included.
CanLock(task) == sessionsLock = "free"

\* A message carrying Bytes()[lo:hi] of the session buffer.
Slice(lo, hi) == <<lo, hi>>

\* Handlers that have done Connections++ and not yet Connections--.
Attached(s) == {c \in Conns : sess[c] = s /\ connPC[c] = "loops"}

\* terminateSession calls for s that are running or have returned true.
Terminates(s) == termWaiting[s] + termClosing[s] + termTrue[s]

\* The first message of a connection: a payload that does not decode, or a Message.
AuthMessages ==
    {Raw, Scalar}
    \cup [json : {TRUE}, object : {TRUE}, type : {"auth"}, token : {"", "a", "b"},
          session_id : 0..MaxSessions, rows : {0}, cols : {0}]
    \cup [json : {TRUE}, object : {TRUE}, type : {"resize"}, token : {"a"},
          session_id : {NoSession}, rows : {0}, cols : {0}]

\* The token the server is started with (SetAuthToken).
ProviderToken == "a"

\* The tokens a DefaultAuthProvider may hold; DefaultOptions leaves Token empty.
ConfiguredTokens == {"", "a", "b"}

\* A provider that accepts every token.
ValidataAuthTokenAll(token) == TRUE

\* DefaultAuthProvider.ValidataAuthToken: no configured token allows every token.
ValidataAuthToken(token) == IF Token = "" THEN TRUE ELSE token = Token

\* The values of the Rows and Cols fields of a Message.
UInt16 == 0..65535

\* json.Unmarshal(message, &msg) returns no error: the payload is a JSON object
\* whose values fit the fields of a Message.
Decodes(m) == m.json /\ m.object /\ m.rows \in UInt16 /\ m.cols \in UInt16

\* The messages of the failure responses of validateClientAuth.
AuthErrors == {"Invalid authentication format", "Invalid message type",
               "Missing authentication token", "Invalid authentication token"}

\* A validation that does not look at the message type.
validateClientAuthAnyType(m) ==
    IF ~Decodes(m) THEN "Invalid authentication format"
    ELSE IF m.token = "" THEN "Missing authentication token"
    ELSE IF ~ValidataAuthToken(m.token) THEN "Invalid authentication token"
    ELSE ""

\* validateClientAuth on a message that was read: the error message, or "" on success.
validateClientAuth(m) ==
    IF ~Decodes(m) THEN "Invalid authentication format"
    ELSE IF m.type # "auth" THEN "Invalid message type"
    ELSE IF m.token = "" THEN "Missing authentication token"
    ELSE IF ~ValidataAuthToken(m.token) THEN "Invalid authentication token"
    ELSE ""

\* A session id that is nobody's.
ForeignSession == MaxSessions + 1

\* Messages of an attached client: raw keystrokes or a decodable Message, whose
\* session_id is empty, a session's or nobody's.
ClientMessages ==
    {Raw, Scalar, NegativeResize}
    \cup [json : {TRUE}, object : {TRUE}, type : {"terminate"}, token : {""},
          session_id : 0..ForeignSession, rows : {0}, cols : {0}]
    \cup [json : {TRUE}, object : {TRUE}, type : {"other"}, token : {""},
          session_id : {NoSession}, rows : {0}, cols : {0}]
    \cup [json : {TRUE}, object : {TRUE}, type : {"resize"}, token : {""},
          session_id : {NoSession}, rows : 0..1, cols : 0..1]

\* The messages of a client that types and terminates sessions: input, and
\* terminate requests that carry a session's id.
SessionMessages ==
    {m \in ClientMessages : ~Decodes(m) \/ (m.type = "terminate" /\ m.session_id \in SessionIds)}

\* The other control messages: resizes, terminate requests without a session's id,
\* and messages of a type the server does not know.
ControlMessages == ClientMessages \ SessionMessages

\* An inbound loop that takes a terminate request whatever session id it carries.
DispatchAnyId(m, id) ==
    IF Decodes(m)
    THEN IF m.type = "resize" /\ m.rows > 0 /\ m.cols > 0 THEN "resize"
         ELSE IF m.type = "terminate" THEN "terminate"
         ELSE "ignored"
    ELSE "input"

\* An inbound loop that resizes the PTY to whatever a resize message carries.
DispatchAnySize(m, id) ==
    IF Decodes(m)
    THEN IF m.type = "resize" THEN "resize"
         ELSE IF m.type = "terminate" /\ m.session_id = id THEN "terminate"
         ELSE "ignored"
    ELSE "input"

\* An inbound loop whose last control branch lacks its continue: a decoded message
\* that is neither a resize nor a terminate falls through to the PTY write.
DispatchFallThrough(m, id) ==
    IF Decodes(m) /\ m.type = "resize" /\ m.rows > 0 /\ m.cols > 0 THEN "resize"
    ELSE IF Decodes(m) /\ m.type = "terminate" /\ m.session_id = id THEN "terminate"
    ELSE "input"

\* What the inbound loop does with a message for the session id: a decoded resize
\* with positive rows and cols resizes the PTY, a decoded terminate carrying the
\* session's own id is acknowledged and scheduled, any other decoded message is
\* logged, and a payload that does not decode is written to the PTY as input.
Dispatch(m, id) ==
    IF Decodes(m)
    THEN IF m.type = "resize" /\ m.rows > 0 /\ m.cols > 0 THEN "resize"
         ELSE IF m.type = "terminate" /\ m.session_id = id THEN "terminate"
         ELSE "ignored"
    ELSE "input"

\* A client that names the field as the server's Message does.
TerminateClickTagged(id) == [type |-> "terminate", session_id |-> id]

\* The object the bundled web client sends when the user clicks Terminate:
\* JSON.stringify({type: 'terminate', sessionID: sessionId}).
TerminateClick(id) == [type |-> "terminate", sessionID |-> id]

\* json.Unmarshal of a JSON object into a Message: a field of the struct gets the
\* value of the key that equals its json tag (type, token, session_id, rows, cols),
\* compared without regard to case, and keeps its zero value when there is no
\* such key; other keys are dropped.
Unmarshal(obj) ==
    LET string(key) == IF key \in DOMAIN obj THEN obj[key] ELSE ""
        id(key) == IF key \in DOMAIN obj THEN obj[key] ELSE NoSession
        uint16(key) == IF key \in DOMAIN obj THEN obj[key] ELSE 0
    IN [json |-> TRUE, object |-> TRUE, type |-> string("type"), token |-> string("token"),
        session_id |-> id("session_id"), rows |-> uint16("rows"), cols |-> uint16("cols")]

\* ------------------------------------------------------------------ initial state

\* No PTY yet, and the size pty.Setsize gives a new PTY: InitialRows and InitialCols
\* of DefaultOptions.
NoSize == <<0, 0>>
InitialSize == <<24, 80>>

InitSessionsAt(pc) ==
    /\ sessions = {}
    /\ sessionsLock = "free"
    /\ created = 0
    /\ Connections = [s \in SessionIds |-> 0]
    /\ OutputBuffer = [s \in SessionIds |-> <<>>]
    /\ Expired = [s \in SessionIds |-> FALSE]
    /\ doneCloses = [s \in SessionIds |-> 0]
    /\ ptyCloses = [s \in SessionIds |-> 0]
    /\ signals = [s \in SessionIds |-> 0]
    /\ shellAlive = [s \in SessionIds |-> FALSE]
    /\ pump = [s \in SessionIds |-> "none"]
    /\ pumpErr = [s \in SessionIds |-> "none"]
    /\ notifier = [s \in SessionIds |-> "none"]
    /\ audience = [s \in SessionIds |-> {}]
    /\ termWaiting = [s \in SessionIds |-> 0]
    /\ termClosing = [s \in SessionIds |-> 0]
    /\ termTrue = [s \in SessionIds |-> 0]
    /\ reaperPC = "sleep"
    /\ reaperTodo = {}
    /\ reaperId = NoSession
    /\ connPC = pc
    /\ sess = [c \in Conns |-> NoSession]
    /\ isNewSession = [c \in Conns |-> FALSE]
    /\ authResp = [c \in Conns |-> "none"]
    /\ poller = [c \in Conns |-> "none"]
    /\ lastSize = [c \in Conns |-> 0]
    /\ currentSize = [c \in Conns |-> 0]
    /\ reader = [c \in Conns |-> "none"]
    /\ recv = [c \in Conns |-> <<>>]
    /\ termResp = [c \in Conns |-> 0]
    /\ termFrom = [s \in SessionIds |-> {}]
    /\ winsize = [s \in SessionIds |-> NoSize]
    /\ logged = {}

\* No session yet, and every connection upgraded and about to send its first message.
InitSessions == InitSessionsAt([c \in Conns |-> "idle"])

\* No call of processTerminalOutput or Chain is being followed.
ReplaceIdle ==
    /\ replPC = "idle" /\ replInput = <<>> /\ replOld = <<>> /\ replNew = <<>>
    /\ replS = <<>> /\ replResult = <<>>

PureIdle ==
    /\ sanPC = "idle" /\ data = <<>> /\ output = <<>> /\ resanitized = <<>>
    /\ chainPC = "idle" /\ middlewares = <<>> /\ handler = <<>> /\ idx = 0 /\ calls = <<>>
    /\ ReplaceIdle

\* The default AllowedOrigins of the package.
DefaultOrigins == {"http://localhost:8080", "https://localhost:8080"}
\* A request without an Origin header: r.Header.Get("Origin") is "".
NoOrigin == ""

\* The split package behind its default origins; every connection of Conns has
\* been upgraded already.
DefaultSetup ==
    /\ singleFile = FALSE
    /\ Origin = [c \in Conns |-> NoOrigin]
    /\ AllowedOrigins = DefaultOrigins

\* No inbound loop is being followed message by message.
InboundIdle ==
    /\ inPC = "idle" /\ inbox = <<>> /\ taken = 0 /\ written = <<>> /\ stamped = 0
    /\ ptyOpen = TRUE

\* The server as cmd/main starts it: one configured token, no session.
Init == Token = ProviderToken /\ InitSessions /\ PureIdle /\ DefaultSetup /\ InboundIdle

\* The package with any configured token, the empty one of DefaultOptions included.
AuthInit == Token \in ConfiguredTokens /\ InitSessions /\ PureIdle /\ DefaultSetup /\ InboundIdle

\* ------------------------------------------------------------------ connection handler

\* The message of the failure response when createNewSession returns an error.
StartFailed == "Failed to create terminal"

\* sendErrorResponse(conn, message) and the return of the handler, whose deferred
\* conn.Close() closes the transport.
Reject(c, message) ==
    /\ connPC' = [connPC EXCEPT ![c] = "closed"]
    /\ authResp' = [authResp EXCEPT ![c] = message]

\* A session that starts with output already in its buffer.
NewBufferStale == <<Output>>

\* OutputBuffer: new(bytes.Buffer).
NewBuffer == <<>>

\* createNewSession after pty.Start succeeded: a fresh id, an empty buffer, the
\* initial window size, LastActive = now, no connections; the session is put in the registry under
\* sessionsLock and its pump is started.
CreateNewSession(c) ==
    LET id == created + 1
    IN /\ created < MaxSessions
       /\ CanLock("handler")
       /\ created' = id
       /\ sessions' = sessions \cup {id}
       /\ OutputBuffer' = [OutputBuffer EXCEPT ![id] = NewBuffer]
       /\ Connections' = [Connections EXCEPT ![id] = 0]
       /\ Expired' = [Expired EXCEPT ![id] = FALSE]
       /\ winsize' = [winsize EXCEPT ![id] = InitialSize]
       /\ shellAlive' = [shellAlive EXCEPT ![id] = TRUE]
       /\ pump' = [pump EXCEPT ![id] = "select"]
       /\ sess' = [sess EXCEPT ![c] = id]

\* The session ids clients know: those a success response carried.  An id is a
\* random UUID, so a client presents a registered id only when it was told it.
Disclosed == {sess[c] : c \in {d \in Conns : authResp[d] = "ok"}}

\* A handler that goes on although createNewSession returned an error.
StartUnchecked(started) == TRUE

\* pty.Start returned no error, so createNewSession returns the session.
StartOK(started) == started

\* HandleWebSocketWithOptions up to the resolved session: the first message is read
\* and validated, and a failure is answered; a supplied session id is looked up
\* under sessionsLock and, when registered, becomes the handler's session; otherwise
\* a new session is created, or a failure is answered when pty.Start fails.
AuthAndResolve(c, m, started) ==
    /\ connPC[c] = "idle"
    /\ LET err == validateClientAuth(m)
           lookup == err = "" /\ m.session_id # NoSession
       IN /\ m.session_id \in sessions => m.session_id \in Disclosed
          /\ lookup => CanLock("handler")
          /\ IF err # ""
             THEN /\ Reject(c, err)
                  /\ UNCHANGED <<sessions, created, sess, isNewSession, OutputBuffer,
                                 Connections, Expired, shellAlive, pump, winsize>>
             ELSE IF lookup /\ m.session_id \in sessions
             THEN /\ sess' = [sess EXCEPT ![c] = m.session_id]
                  /\ isNewSession' = [isNewSession EXCEPT ![c] = FALSE]
                  /\ connPC' = [connPC EXCEPT ![c] = "respond"]
                  /\ UNCHANGED <<sessions, created, authResp, OutputBuffer,
                                 Connections, Expired, shellAlive, pump, winsize>>
             ELSE IF StartOK(started)
             THEN /\ CreateNewSession(c)
                  /\ isNewSession' = [isNewSession EXCEPT ![c] = TRUE]
                  /\ connPC' = [connPC EXCEPT ![c] = "respond"]
                  /\ UNCHANGED authResp
             ELSE /\ Reject(c, StartFailed)
                  /\ UNCHANGED <<sessions, created, sess, isNewSession, OutputBuffer,
                                 Connections, Expired, shellAlive, pump, winsize>>
    /\ UNCHANGED <<apartVars, logged, Token, ackVars, sessionsLock, doneCloses, ptyCloses, signals, pumpErr, notifier, audience,
                   termVars, reaperVars, loopVars>>

\* A poller that starts from 0 on a reconnect too.
InitialLastSizeZero(isNew, len) == 0

\* What the poller starts from: 0 for a new session, the buffer length otherwise.
InitialLastSize(isNew, len) == IF isNew THEN 0 ELSE len

\* A handler that counts the connection before the success response is written.
IncrementedFirst(up) == TRUE

\* Connections++ is reached only when sendAuthSuccess returned no error.
Incremented(up) == up

\* sendAuthSuccess, whose write error (up = FALSE) makes the handler return; then
\* Connections++ under the session lock; on a reconnect with a non-empty buffer the
\* whole buffer, as it is now, is written to the connection; then
\* handleTerminalConnection starts the two goroutines.
Attach(c, up) ==
    /\ connPC[c] = "respond"
    /\ LET s == sess[c]
           replay == ~isNewSession[c] /\ Len(OutputBuffer[s]) > 0
       IN /\ Connections' = [Connections EXCEPT ![s] = IF Incremented(up) THEN @ + 1 ELSE @]
          /\ IF up
             THEN /\ authResp' = [authResp EXCEPT ![c] = "ok"]
                  /\ recv' = [recv EXCEPT ![c] =
                                 IF replay THEN <<Slice(0, Len(OutputBuffer[s]))>> ELSE @]
                  /\ connPC' = [connPC EXCEPT ![c] = "loops"]
                  /\ poller' = [poller EXCEPT ![c] = "init"]
                  /\ reader' = [reader EXCEPT ![c] = "read"]
             ELSE /\ connPC' = [connPC EXCEPT ![c] = "closed"]
                  /\ UNCHANGED <<authResp, recv, poller, reader>>
    /\ UNCHANGED <<apartVars, ctlVars, Token, ackVars, sessions, sessionsLock, created, OutputBuffer, Expired, doneCloses,
                   ptyCloses, signals, shellAlive, pumpVars, termVars, reaperVars, sess,
                   isNewSession, lastSize, currentSize>>

\* The WebSocket of an attached connection is usable: the inbound goroutine, blocked
\* in ReadMessage, is the first to see the transport close.
TransportOpen(c) == connPC[c] = "loops" /\ reader[c] # "readErr"

\* The poller's first step: lastSize is set under the session lock.
PollerInit(c) ==
    /\ poller[c] = "init"
    /\ lastSize' = [lastSize EXCEPT ![c] =
                       IF singleFile THEN 0
                       ELSE InitialLastSize(isNewSession[c], Len(OutputBuffer[sess[c]]))]
    /\ poller' = [poller EXCEPT ![c] = "select"]
    /\ UNCHANGED <<apartVars, ctlVars, Token, ackVars, sessions, sessionsLock, created, sessVars, pumpVars, termVars,
                   reaperVars, handlerVars, currentSize, reader, recv>>

ReaderExits == {"ptyErr", "readErr"}

\* select: case <-connClosed.
PollerConnClosed(c) ==
    /\ poller[c] = "select"
    /\ reader[c] \in ReaderExits
    /\ poller' = [poller EXCEPT ![c] = "exitClosed"]
    /\ UNCHANGED <<apartVars, ctlVars, Token, ackVars, sessions, sessionsLock, created, sessVars, pumpVars, termVars,
                   reaperVars, handlerVars, lastSize, currentSize, reader, recv>>

\* select: case <-session.Done.
PollerDone(c) ==
    /\ poller[c] = "select"
    /\ doneCloses[sess[c]] > 0
    /\ poller' = [poller EXCEPT ![c] = "exitDone"]
    /\ UNCHANGED <<apartVars, ctlVars, Token, ackVars, sessions, sessionsLock, created, sessVars, pumpVars, termVars,
                   reaperVars, handlerVars, lastSize, currentSize, reader, recv>>

\* select: case <-ticker.C with new output: the slice is taken under the session lock.
PollerTick(c) ==
    /\ poller[c] = "select"
    /\ Len(OutputBuffer[sess[c]]) > lastSize[c]
    /\ currentSize' = [currentSize EXCEPT ![c] = Len(OutputBuffer[sess[c]])]
    /\ poller' = [poller EXCEPT ![c] = "write"]
    /\ UNCHANGED <<apartVars, ctlVars, Token, ackVars, sessions, sessionsLock, created, sessVars, pumpVars, termVars,
                   reaperVars, handlerVars, lastSize, reader, recv>>

\* conn.WriteMessage of the slice: on an error the poller returns, otherwise
\* lastSize = currentSize.
PollerWrite(c) ==
    /\ poller[c] = "write"
    /\ IF TransportOpen(c)
       THEN /\ recv' = [recv EXCEPT ![c] = Append(@, Slice(lastSize[c], currentSize[c]))]
            /\ lastSize' = [lastSize EXCEPT ![c] = currentSize[c]]
            /\ poller' = [poller EXCEPT ![c] = "select"]
       ELSE /\ poller' = [poller EXCEPT ![c] = "exitWrite"]
            /\ UNCHANGED <<recv, lastSize>>
    /\ currentSize' = [currentSize EXCEPT ![c] = 0]
    /\ UNCHANGED <<apartVars, ctlVars, Token, ackVars, sessions, sessionsLock, created, sessVars, pumpVars, termVars,
                   reaperVars, handlerVars, reader>>

\* An inbound loop that starts the termination and writes no response.
AcknowledgedNever(terminate) == FALSE

\* The terminate_response is written before the terminating goroutine is started.
Acknowledged(terminate) == terminate

\* Most different messages in the control-message log.
MaxLogged == 1

\* The inbound goroutine got a message.  A decodable Message is a control message:
\* a resize with positive rows and cols sets the window size of the PTY; a
\* terminate for this session is acknowledged and a goroutine is started that
\* sleeps and calls terminateSession; anything else is logged.  Any other payload
\* is written to the PTY under the session lock with LastActive = now, and a failed
\* write ends the loop and closes connClosed.
ReaderMessage(c, m) ==
    /\ reader[c] = "read"
    /\ LET s == sess[c]
           terminate == Dispatch(m, s) = "terminate"
           input == Dispatch(m, s) = "input"
           resize == Dispatch(m, s) = "resize"
           ignored == Dispatch(m, s) = "ignored"
       IN /\ terminate => Terminates(s) < MaxTerminate
          /\ ignored => Cardinality(logged \cup {m}) <= MaxLogged
          /\ winsize' = [winsize EXCEPT ![s] =
                            IF resize /\ ptyCloses[s] = 0 THEN <<m.rows, m.cols>> ELSE @]
          /\ logged' = IF ignored THEN logged \cup {m} ELSE logged
          /\ termResp' = [termResp EXCEPT ![c] = IF Acknowledged(terminate) THEN @ + 1 ELSE @]
          /\ termFrom' = [termFrom EXCEPT ![s] = IF terminate THEN @ \cup {c} ELSE @]
          /\ termWaiting' = [termWaiting EXCEPT ![s] = IF terminate THEN @ + 1 ELSE @]
          /\ Expired' = [Expired EXCEPT ![s] = IF input THEN FALSE ELSE @]
          /\ reader' = [reader EXCEPT ![c] =
                           IF input /\ ptyCloses[s] > 0 THEN "ptyErr" ELSE @]
    /\ UNCHANGED <<apartVars, Token, sessions, sessionsLock, created, Connections, OutputBuffer, doneCloses,
                   ptyCloses, signals, shellAlive, pumpVars, termClosing, termTrue,
                   reaperVars, handlerVars, poller, lastSize, currentSize, recv>>

\* The client closes the WebSocket or the transport breaks: conn.ReadMessage fails,
\* the loop ends and connClosed is closed.
ReaderReadErr(c) ==
    /\ reader[c] = "read"
    /\ reader' = [reader EXCEPT ![c] = "readErr"]
    /\ UNCHANGED <<apartVars, ctlVars, Token, ackVars, sessions, sessionsLock, created, sessVars, pumpVars, termVars,
                   reaperVars, handlerVars, poller, lastSize, currentSize, recv>>

PollerExits == {"exitClosed", "exitDone", "exitWrite"}

\* A handler that drops the session when its last connection goes.
ClosesOnLastDetach(remaining) == remaining = 0

\* A handler that drops the session with any connection that goes.
ClosesOnAnyDetach(remaining) == TRUE

\* The handler leaves the session alone when a connection ends, whatever count
\* remains: sessions stay for reconnection.
ClosesOnDetach(remaining) == FALSE

\* wg.Wait() returned: Connections--, LastActive = now, and the deferred conn.Close();
\* the goroutines and their locals are gone.
Detach(c) ==
    /\ connPC[c] = "loops"
    /\ poller[c] \in PollerExits
    /\ reader[c] \in ReaderExits
    /\ Connections' = [Connections EXCEPT ![sess[c]] = @ - 1]
    /\ Expired' = [Expired EXCEPT ![sess[c]] = FALSE]
    /\ sessions' = IF ClosesOnDetach(Connections[sess[c]] - 1) THEN sessions \ {sess[c]}
                   ELSE sessions
    /\ connPC' = [connPC EXCEPT ![c] = "closed"]
    /\ poller' = [poller EXCEPT ![c] = "none"]
    /\ reader' = [reader EXCEPT ![c] = "none"]
    /\ lastSize' = [lastSize EXCEPT ![c] = 0]
    /\ UNCHANGED <<apartVars, ctlVars, Token, ackVars, sessionsLock, created, OutputBuffer, doneCloses, ptyCloses,
                   signals, shellAlive, pumpVars, termVars, reaperVars, sess, isNewSession,
                   authResp, currentSize, recv>>

\* ------------------------------------------------------------------ pump

\* A buffer that is emptied before each write.
WriteAfterReset(buf, p) == p

\* bytes.Buffer.Write appends p to the buffer.
Write(buf, p) == buf \o p

\* The pump's select: a closed Done makes it return, otherwise it reads the PTY.
PumpSelect(s) ==
    /\ pump[s] = "select"
    /\ pump' = [pump EXCEPT ![s] = IF doneCloses[s] > 0 THEN "returned" ELSE "read"]
    /\ UNCHANGED <<apartVars, ctlVars, Token, ackVars, sessions, sessionsLock, created, sessVars, pumpErr, notifier, audience,
                   termVars, reaperVars, handlerVars, loopVars>>

\* PTY.Read returned a chunk; what processTerminalOutput leaves of it (out, possibly
\* nothing) is appended under the session lock with LastActive = now.
PumpRead(s, out) ==
    /\ pump[s] = "read"
    /\ shellAlive[s]
    /\ ptyCloses[s] = 0
    /\ Len(OutputBuffer[s]) + Len(out) <= MaxBuf
    /\ OutputBuffer' = [OutputBuffer EXCEPT ![s] = Write(@, out)]
    /\ Expired' = [Expired EXCEPT ![s] = IF Len(out) > 0 THEN FALSE ELSE @]
    /\ pump' = [pump EXCEPT ![s] = "select"]
    /\ UNCHANGED <<apartVars, ctlVars, Token, ackVars, sessions, sessionsLock, created, Connections, doneCloses, ptyCloses,
                   signals, shellAlive, pumpErr, notifier, audience, termVars, reaperVars,
                   handlerVars, loopVars>>

\* PTY.Read failed, because the shell has exited or because the PTY was closed:
\* the pump starts the notifier goroutine and returns.
PumpReadErr(s) ==
    /\ pump[s] = "read"
    /\ ~(shellAlive[s] /\ ptyCloses[s] = 0)
    /\ pump' = [pump EXCEPT ![s] = "returned"]
    /\ pumpErr' = [pumpErr EXCEPT ![s] = IF ptyCloses[s] > 0 THEN "closed" ELSE "exit"]
    /\ notifier' = [notifier EXCEPT ![s] = "notify"]
    /\ audience' = [audience EXCEPT ![s] = Attached(s)]
    /\ UNCHANGED <<apartVars, ctlVars, Token, ackVars, sessions, sessionsLock, created, sessVars, termVars, reaperVars,
                   handlerVars, loopVars>>

\* A notifier that writes the envelope whether or not anyone is attached.
BroadcastsAlways(connections) == TRUE

\* The notifier writes the envelope only for a session with connections.
Broadcasts(connections) == connections > 0

\* The notifier: with Connections > 0 the wrapped session_ended message is written
\* to the buffer; then it sleeps and calls terminateSession.
NotifierAppend(s) ==
    /\ notifier[s] = "notify"
    /\ OutputBuffer' = [OutputBuffer EXCEPT ![s] =
                           IF Broadcasts(Connections[s]) THEN Write(@, <<Ended>>) ELSE @]
    /\ notifier' = [notifier EXCEPT ![s] = "done"]
    /\ termWaiting' = [termWaiting EXCEPT ![s] = @ + 1]
    /\ UNCHANGED <<apartVars, ctlVars, Token, ackVars, sessions, sessionsLock, created, Connections, Expired, doneCloses,
                   ptyCloses, signals, shellAlive, pump, pumpErr, audience, termClosing,
                   termTrue, reaperVars, handlerVars, loopVars>>

\* The shell process exits: the user typed exit, or it was killed.
ShellExit(s) ==
    /\ shellAlive[s]
    /\ shellAlive' = [shellAlive EXCEPT ![s] = FALSE]
    /\ UNCHANGED <<apartVars, ctlVars, Token, ackVars, sessions, sessionsLock, created, Connections, OutputBuffer, Expired,
                   doneCloses, ptyCloses, signals, pumpVars, termVars, reaperVars,
                   handlerVars, loopVars>>

\* Time passes until now - LastActive exceeds the session's timeout.  A tick
\* compares with the now it took at its start, so time that passes during a tick
\* does not count for it.
TimeoutElapses(s) ==
    /\ s \in sessions
    /\ reaperPC = "sleep"
    /\ ~Expired[s]
    /\ Expired' = [Expired EXCEPT ![s] = TRUE]
    /\ UNCHANGED <<apartVars, ctlVars, Token, ackVars, sessions, sessionsLock, created, Connections, OutputBuffer, doneCloses,
                   ptyCloses, signals, shellAlive, pumpVars, termVars, reaperVars,
                   handlerVars, loopVars>>

\* ------------------------------------------------------------------ teardown

\* terminateSession up to its lookup under sessionsLock: false when the id is not
\* registered, otherwise on to closeSession.
TerminateLookup(s) ==
    /\ termWaiting[s] > 0
    /\ CanLock("terminate")
    /\ termWaiting' = [termWaiting EXCEPT ![s] = @ - 1]
    /\ termClosing' = [termClosing EXCEPT ![s] = IF s \in sessions THEN @ + 1 ELSE @]
    /\ UNCHANGED <<apartVars, ctlVars, Token, ackVars, sessions, sessionsLock, created, sessVars, pumpVars, termTrue,
                   reaperVars, handlerVars, loopVars>>

\* closeSession without its early return.
ExistsAlways(s) == TRUE

\* closeSession finds the id in the registry.
Exists(s) == s \in sessions

\* closeSession(s), called by terminateSession or by the reaper: it takes
\* sessionsLock; for a registered id the process is signalled, the PTY closed, Done
\* closed and the entry deleted; the deferred Unlock releases the lock.  Then
\* terminateSession returns true, and the reaper goes on with its range loop.
CloseSession(caller, s) ==
    /\ IF caller = "reaper" THEN reaperPC = "close" /\ reaperId = s ELSE termClosing[s] > 0
    /\ CanLock(caller)
    /\ signals' = [signals EXCEPT ![s] = IF Exists(s) THEN @ + 1 ELSE @]
    /\ ptyCloses' = [ptyCloses EXCEPT ![s] = IF Exists(s) THEN @ + 1 ELSE @]
    /\ doneCloses' = [doneCloses EXCEPT ![s] = IF Exists(s) THEN @ + 1 ELSE @]
    /\ sessions' = sessions \ {s}
    /\ sessionsLock' = "free"
    /\ reaperPC' = IF caller = "reaper" THEN "range" ELSE reaperPC
    /\ termClosing' = [termClosing EXCEPT ![s] = IF caller = "reaper" THEN @ ELSE @ - 1]
    /\ termTrue' = [termTrue EXCEPT ![s] = IF caller = "reaper" THEN @ ELSE @ + 1]
    /\ UNCHANGED <<apartVars, ctlVars, Token, ackVars, created, Connections, OutputBuffer, Expired, shellAlive, pumpVars,
                   termWaiting, reaperTodo, reaperId, handlerVars,
                   loopVars>>

\* ------------------------------------------------------------------ reaper

\* A tick of the reaper: cleanupExpiredSessions takes sessionsLock and keeps it
\* (defer Unlock) while it ranges over the registry.
ReaperTick ==
    /\ reaperPC = "sleep"
    /\ CanLock("reaper")
    /\ sessionsLock' = "reaper"
    /\ reaperTodo' = sessions
    /\ reaperPC' = "range"
    /\ UNCHANGED <<apartVars, ctlVars, Token, ackVars, sessions, created, sessVars, pumpVars, termVars, reaperId, handlerVars,
                   loopVars>>

\* The reaper's test on what it read under the session lock.
IsExpired(connections, expired) == connections = 0 /\ expired

\* One iteration: LastActive and Connections are read under the session lock; an
\* expired session without connections is handed to closeSession.
ReaperVisit(s) ==
    /\ reaperPC = "range"
    /\ s \in reaperTodo
    /\ reaperTodo' = reaperTodo \ {s}
    /\ reaperPC' = IF IsExpired(Connections[s], Expired[s]) THEN "close" ELSE "range"
    /\ reaperId' = IF IsExpired(Connections[s], Expired[s]) THEN s ELSE reaperId
    /\ UNCHANGED <<apartVars, ctlVars, Token, ackVars, sessions, sessionsLock, created, sessVars, pumpVars, termVars,
                   handlerVars, loopVars>>

\* The range loop is over: the deferred Unlock runs and the reaper sleeps.
ReaperEnd ==
    /\ reaperPC = "range"
    /\ reaperTodo = {}
    /\ sessionsLock' = "free"
    /\ reaperPC' = "sleep"
    /\ UNCHANGED <<apartVars, ctlVars, Token, ackVars, sessions, created, sessVars, pumpVars, termVars, reaperTodo, reaperId,
                   handlerVars, loopVars>>

\* ------------------------------------------------------------------ specification

\* The steps of the program with the connections of C taking part.
NextFor(C) ==
    \/ \E c \in C, m \in AuthMessages, started \in BOOLEAN : AuthAndResolve(c, m, started)
    \/ \E c \in C, up \in BOOLEAN : Attach(c, up)
    \/ \E c \in C : PollerInit(c)
    \/ \E c \in C : PollerConnClosed(c)
    \/ \E c \in C : PollerDone(c)
    \/ \E c \in C : PollerTick(c)
    \/ \E c \in C : PollerWrite(c)
    \/ \E c \in C, m \in SessionMessages : ReaderMessage(c, m)
    \/ \E c \in C : ReaderReadErr(c)
    \/ \E c \in C : Detach(c)
    \/ \E s \in SessionIds : PumpSelect(s)
    \/ \E s \in SessionIds, out \in {<<>>, <<Output>>} : PumpRead(s, out)
    \/ \E s \in SessionIds : PumpReadErr(s)
    \/ \E s \in SessionIds : NotifierAppend(s)
    \/ \E s \in SessionIds : ShellExit(s)
    \/ \E s \in SessionIds : TimeoutElapses(s)
    \/ \E s \in SessionIds : TerminateLookup(s)
    \/ \E s \in SessionIds, caller \in {"reaper", "terminate"} : CloseSession(caller, s)
    \/ ReaperTick
    \/ \E s \in SessionIds : ReaperVisit(s)
    \/ ReaperEnd

Next == NextFor(Conns)

Spec == Init /\ [][Next]_vars

\* One client only: the other connections never open.
LiveConns == {1}

LiveNext == NextFor(LiveConns)

\* What Go's scheduler and its starvation-free mutex give: a goroutine that can run
\* does run, and a goroutine waiting for sessionsLock gets it when the lock keeps
\* being released.  Nothing is assumed of the clients, the shell or the clock: no
\* message, close, output, exit or timeout has to happen.
HandlerStep(c) == (\E up \in BOOLEAN : Attach(c, up)) \/ Detach(c)
PollerStep(c) ==
    PollerInit(c) \/ PollerConnClosed(c) \/ PollerDone(c) \/ PollerTick(c) \/ PollerWrite(c)
PumpStep(s) == PumpSelect(s) \/ PumpReadErr(s) \/ NotifierAppend(s)
ReaperStep == ReaperTick \/ (\E s \in SessionIds : ReaperVisit(s)) \/ ReaperEnd

Fairness ==
    /\ \A c \in LiveConns : WF_vars(HandlerStep(c)) /\ WF_vars(PollerStep(c))
    /\ \A s \in SessionIds : WF_vars(PumpStep(s))
    /\ \A s \in SessionIds : SF_vars(TerminateLookup(s))
    /\ \A s \in SessionIds : SF_vars(\E caller \in {"reaper", "terminate"} : CloseSession(caller, s))
    /\ SF_vars(ReaperStep)

FairSpec == Init /\ [][LiveNext]_vars /\ Fairness

\* One client against a server with any configured token.
AuthSpec == AuthInit /\ [][LiveNext]_vars

\* One client that sends every kind of message.
FullNext == LiveNext \/ \E c \in LiveConns, m \in ControlMessages : ReaderMessage(c, m)

LoopSpec == Init /\ [][FullNext]_vars

\* ------------------------------------------------------------------ the single-file package

\* The earlier client, whose connection created the session and is closed now.
EarlierConn == 2

\* pkg/terminal/terminal.go serves; a session that an earlier client created and
\* left is kept for reconnection, with shell output in its buffer that was sent
\* to that client, and the next request has been upgraded.
ReconnectInit ==
    /\ Token = ProviderToken /\ PureIdle /\ InboundIdle
    /\ singleFile = TRUE
    /\ Origin = [c \in Conns |-> NoOrigin]
    /\ AllowedOrigins = DefaultOrigins
    /\ sessions = {1} /\ sessionsLock = "free" /\ created = 1
    /\ Connections = [s \in SessionIds |-> 0]
    /\ OutputBuffer = [s \in SessionIds |-> <<Output>>]
    /\ Expired = [s \in SessionIds |-> FALSE]
    /\ doneCloses = [s \in SessionIds |-> 0]
    /\ ptyCloses = [s \in SessionIds |-> 0]
    /\ signals = [s \in SessionIds |-> 0]
    /\ shellAlive = [s \in SessionIds |-> TRUE]
    /\ pump = [s \in SessionIds |-> "select"]
    /\ pumpErr = [s \in SessionIds |-> "none"]
    /\ notifier = [s \in SessionIds |-> "none"]
    /\ audience = [s \in SessionIds |-> {}]
    /\ termWaiting = [s \in SessionIds |-> 0]
    /\ termClosing = [s \in SessionIds |-> 0]
    /\ termTrue = [s \in SessionIds |-> 0]
    /\ reaperPC = "sleep" /\ reaperTodo = {} /\ reaperId = NoSession
    /\ connPC = [c \in Conns |-> IF c = EarlierConn THEN "closed" ELSE "idle"]
    /\ sess = [c \in Conns |-> IF c = EarlierConn THEN 1 ELSE NoSession]
    /\ isNewSession = [c \in Conns |-> c = EarlierConn]
    /\ authResp = [c \in Conns |-> IF c = EarlierConn THEN "ok" ELSE "none"]
    /\ poller = [c \in Conns |-> "none"]
    /\ lastSize = [c \in Conns |-> 0]
    /\ currentSize = [c \in Conns |-> 0]
    /\ reader = [c \in Conns |-> "none"]
    /\ recv = [c \in Conns |-> IF c = EarlierConn THEN << <<0, 1>> >> ELSE <<>>]
    /\ termResp = [c \in Conns |-> 0]
    /\ termFrom = [s \in SessionIds |-> {}]
    /\ winsize = [s \in SessionIds |-> InitialSize]
    /\ logged = {}

SingleFileSpec == ReconnectInit /\ [][LiveNext]_vars

\* ------------------------------------------------------------------ upgrade

\* An origin no deployment allows.
ForeignOrigin == "http://evil.example"
\* An origin set with the allowed-origins flag.
CustomOrigin == "https://term.example"

\* The Origin header values of upgrade requests.
Origins == {NoOrigin, "http://localhost:8080", CustomOrigin, ForeignOrigin}

\* The lists main passes to SetAllowedOrigins: the default origins, or those of the flag.
OriginLists == {DefaultOrigins, {CustomOrigin}}

\* An upgrader that accepts every request.
CheckOriginAny(origin) == TRUE

\* Upgrader.CheckOrigin: a request without an Origin header passes, any other
\* passes if its origin is in AllowedOrigins.
CheckOrigin(origin) == origin = NoOrigin \/ origin \in AllowedOrigins

\* The requests of the live connections have arrived and are not upgraded yet.
UpgradeInit ==
    /\ Token = ProviderToken /\ PureIdle /\ InboundIdle
    /\ InitSessionsAt([c \in Conns |-> IF c \in LiveConns THEN "request" ELSE "idle"])
    /\ singleFile = FALSE
    /\ Origin \in {o \in [Conns -> Origins] : \A c \in Conns \ LiveConns : o[c] = NoOrigin}
    /\ AllowedOrigins \in OriginLists

\* conn, err := Upgrader.Upgrade(w, r, nil): the handler returns when the upgrade
\* fails, and reads the first message otherwise.
Upgrade(c) ==
    /\ connPC[c] = "request"
    /\ connPC' = [connPC EXCEPT ![c] = IF CheckOrigin(Origin[c]) THEN "idle" ELSE "closed"]
    /\ UNCHANGED <<apartVars, ctlVars, Token, ackVars, sessions, sessionsLock, created, sessVars, pumpVars,
                   termVars, reaperVars, sess, isNewSession, authResp, loopVars>>

UpgradeNext == LiveNext \/ \E c \in LiveConns : Upgrade(c)

UpgradeSpec == UpgradeInit /\ [][UpgradeNext]_vars

\* ------------------------------------------------------------------ inbound loop, message by message

\* Longest run of messages a connection delivers to the loop that is followed.
MaxInbox == 3

\* The id of the session the followed loop serves.
InboundSession == 1

Inboxes == UNION {[1..n -> ClientMessages] : n \in 0..MaxInbox}

\* handleTerminalConnection starts the inbound goroutine for a connection that
\* will deliver inbox; the session's PTY is open.
InboundInit ==
    /\ Token = ProviderToken /\ InitSessions /\ PureIdle /\ DefaultSetup
    /\ inPC = "read"
    /\ inbox \in Inboxes
    /\ taken = 0
    /\ written = <<>>
    /\ stamped = 0
    /\ ptyOpen = TRUE

\* _, message, err := conn.ReadMessage(): the next message, or the error that ends
\* the loop once the client has closed the connection.
InboundRead ==
    /\ inPC = "read"
    /\ IF taken < Len(inbox)
       THEN taken' = taken + 1 /\ inPC' = "handle"
       ELSE taken' = taken /\ inPC' = "exit"
    /\ UNCHANGED <<termState, pureVars, setupVars, inbox, written, stamped, ptyOpen>>

\* The body of the loop for the message just read: a control message is handled
\* and the loop continues; any other payload sets LastActive and goes to
\* session.PTY.Write, whose error on a closed PTY ends the loop.
InboundHandle ==
    /\ inPC = "handle"
    /\ LET message == inbox[taken]
           input == Dispatch(message, InboundSession) = "input"
       IN /\ stamped' = IF input THEN stamped + 1 ELSE stamped
          /\ written' = IF input /\ ptyOpen THEN Append(written, message) ELSE written
          /\ inPC' = IF input /\ ~ptyOpen THEN "exit" ELSE "read"
    /\ UNCHANGED <<termState, pureVars, setupVars, inbox, taken, ptyOpen>>

\* closeSession closes the session's PTY while the connection is still attached.
InboundPtyClose ==
    /\ inPC \in {"read", "handle"}
    /\ ptyOpen
    /\ ptyOpen' = FALSE
    /\ UNCHANGED <<termState, pureVars, setupVars, inPC, inbox, taken, written, stamped>>

InboundNext == InboundRead \/ InboundHandle \/ InboundPtyClose

InboundSpec == InboundInit /\ [][InboundNext]_vars

\* ------------------------------------------------------------------ sanitizer

\* Longest chunk given to processTerminalOutput.
MaxChunk == 5

\* The byte 0x1b, and a byte that occurs in no pattern.
Esc == "e"
Other == "x"

\* The bytes of the patterns, and one more.
Bytes == {Esc, "[", "?", "2", "0", "4", "h", "l", "1", "9", "=", Other}

\* The denylist, in the order it is applied: bracketed paste mode, alternate screen
\* buffer, application cursor keys, cursor blinking.
replacePatterns ==
    << <<Esc, "[", "?", "2", "0", "0", "4", "h">>, <<Esc, "[", "?", "2", "0", "0", "4", "l">>,
       <<Esc, "[", "?", "1", "0", "4", "9", "h">>, <<Esc, "[", "?", "1", "0", "4", "9", "l">>,
       <<Esc, "[", "?", "1", "h">>, <<Esc, "=">>,
       <<Esc, "[", "?", "1", "2", "h">>, <<Esc, "[", "?", "1", "2", "l">> >>

\* The loop of indexOf from i on: the first i with s[i:i+len(substr)] == substr,
\* or -1 once i > len(s)-len(substr).
RECURSIVE indexFrom(_, _, _)
indexFrom(s, substr, i) ==
    IF i > Len(s) - Len(substr) THEN -1
    ELSE IF SubSeq(s, i + 1, i + Len(substr)) = substr THEN i
    ELSE indexFrom(s, substr, i + 1)

\* An indexOf whose loop starts at 1.
indexOfFromOne(s, substr) == indexFrom(s, substr, 1)

\* indexOf(s, substr): the loop from i := 0, with Go's index from 0.
indexOf(s, substr) == indexFrom(s, substr, 0)

\* The loop of replaceAllStringLiteral: the text up to the first occurrence and new
\* go to result, and the search goes on behind the occurrence.
RECURSIVE replaceLoop(_, _, _, _)
replaceLoop(result, s, old, new) ==
    LET at == indexOf(s, old)
    IN IF at = -1 THEN result \o s
       ELSE replaceLoop(result \o SubSeq(s, 1, at) \o new,
                        SubSeq(s, at + Len(old) + 1, Len(s)), old, new)

replaceAllStringLiteral(s, old, new) ==
    IF old = <<>> THEN s ELSE replaceLoop(<<>>, s, old, new)

\* The range loop of processTerminalOutput from pattern k on.
RECURSIVE replaceFrom(_, _)
replaceFrom(str, k) ==
    IF k > Len(replacePatterns) THEN str
    ELSE replaceFrom(replaceAllStringLiteral(str, replacePatterns[k], <<>>), k + 1)

processTerminalOutput(bytes) == replaceFrom(bytes, 1)

\* The chunks a PTY read may return.
Chunks == UNION {[1..n -> Bytes] : n \in 0..MaxChunk}

\* q written into p behind p's first k bytes.
Insert(p, q, k) == SubSeq(p, 1, k) \o q \o SubSeq(p, k + 1, Len(p))

\* Longer chunks: one denylisted sequence written into another, as two programs
\* writing to the same terminal interleave them.
Interleaved ==
    {Insert(replacePatterns[i], replacePatterns[j], k) :
        i \in DOMAIN replacePatterns, j \in DOMAIN replacePatterns, k \in 1..2}

\* A chunk is about to be sanitized.
SanInit ==
    /\ Token = ProviderToken /\ InitSessions /\ DefaultSetup /\ InboundIdle /\ ReplaceIdle
    /\ sanPC = "chunk" /\ data \in Chunks \cup Interleaved /\ output = <<>> /\ resanitized = <<>>
    /\ chainPC = "idle" /\ middlewares = <<>> /\ handler = <<>> /\ idx = 0 /\ calls = <<>>

\* output := processTerminalOutput(buf[:n]).
Sanitize ==
    /\ sanPC = "chunk"
    /\ output' = processTerminalOutput(data)
    /\ sanPC' = "once"
    /\ UNCHANGED <<termState, setupVars, inVars, replVars, chainVars, replVars, data, resanitized>>

\* processTerminalOutput called on its own result.
SanitizeAgain ==
    /\ sanPC = "once"
    /\ resanitized' = processTerminalOutput(output)
    /\ sanPC' = "twice"
    /\ UNCHANGED <<termState, setupVars, inVars, replVars, chainVars, replVars, data, output>>

SanNext == Sanitize \/ SanitizeAgain

SanSpec == SanInit /\ [][SanNext]_vars

\* ------------------------------------------------------------------ middleware chain

\* Longest list of middlewares passed to Chain.
MaxChain == 3

\* The handler Chain is given (the file server, the terminal handler): it answers
\* the request and calls nothing further.
Wrapped == [name |-> "handler", next |-> FALSE]

\* A middleware as one request meets it: its name and whether it calls
\* next.ServeHTTP (the logger always does; CORSMiddleware and AuthenticateMiddleware
\* answer a request they reject themselves and return).
Middlewares ==
    {[name |-> "logger", next |-> TRUE]} \cup [name : {"cors", "auth"}, next : BOOLEAN]

\* The lists of middlewares Chain may be called with.
MiddlewareLists == UNION {[1..n -> Middlewares] : n \in 0..MaxChain}

\* A loop that takes the middlewares from the first to the last.
PickedForward(ms, k) == ms[Len(ms) - k]

\* middlewares[i], with Go's index from 0.
Picked(ms, k) == ms[k + 1]

\* middlewares[i](handler): the handler that runs the middleware, which may call
\* the handler it was given.
Apply(m, h) == <<m>> \o h

\* ConvertToFuncMiddleware(middleware): a FuncMiddleware that keeps the middleware
\* and applies it when a request arrives.
ConvertToFuncMiddleware(m) == [converted |-> m]

\* A converted middleware whose function calls next without the middleware.
RunConvertedSkipping(f, next) == next

\* The function a converted middleware returns for next, when a request calls it:
\* middleware(next), which then serves the request.
RunConverted(f, next) == Apply(f.converted, next)

\* What runs when a handler serves a request: its outermost layer, and what that
\* layer's next runs if the layer calls it.  The layer of a converted middleware
\* is the function that calls middleware(next).ServeHTTP(w, r).
RECURSIVE ServeHTTP(_)
ServeHTTP(h) ==
    IF h = <<>> THEN <<>>
    ELSE IF "converted" \in DOMAIN h[1] THEN ServeHTTP(RunConverted(h[1], Tail(h)))
    ELSE IF h[1].next THEN <<h[1].name>> \o ServeHTTP(Tail(h))
    ELSE <<h[1].name>>

\* Chain(handler, middlewares...) is called: i := len(middlewares) - 1.
ChainInit ==
    /\ Token = ProviderToken /\ InitSessions /\ DefaultSetup /\ InboundIdle /\ ReplaceIdle
    /\ sanPC = "idle" /\ data = <<>> /\ output = <<>> /\ resanitized = <<>>
    /\ middlewares \in MiddlewareLists
    /\ handler = <<Wrapped>>
    /\ idx = Len(middlewares) - 1
    /\ chainPC = "loop"
    /\ calls = <<>>

\* One iteration: handler = middlewares[i](handler); i--.
ChainLoop ==
    /\ chainPC = "loop"
    /\ idx >= 0
    /\ handler' = Apply(Picked(middlewares, idx), handler)
    /\ idx' = idx - 1
    /\ UNCHANGED <<termState, setupVars, inVars, replVars, sanVars, chainPC, middlewares, calls>>

\* i < 0: return handler.
ChainReturn ==
    /\ chainPC = "loop"
    /\ idx < 0
    /\ chainPC' = "built"
    /\ UNCHANGED <<termState, setupVars, inVars, replVars, sanVars, middlewares, handler, idx, calls>>

\* A request is served by the handler Chain returned.
ChainServe ==
    /\ chainPC = "built"
    /\ calls' = ServeHTTP(handler)
    /\ chainPC' = "served"
    /\ UNCHANGED <<termState, setupVars, inVars, replVars, sanVars, middlewares, handler, idx>>

ChainNext == ChainLoop \/ ChainReturn \/ ChainServe

ChainSpec == ChainInit /\ [][ChainNext]_vars

\* The lists ChainFunc is called with in main: each middleware converted.
FuncMiddlewareLists ==
    {[k \in 1..Len(ms) |-> ConvertToFuncMiddleware(ms[k])] : ms \in MiddlewareLists}

\* ChainFunc(handler, middlewares...) is called; its loop is Chain's.
ChainFuncInit ==
    /\ Token = ProviderToken /\ InitSessions /\ DefaultSetup /\ InboundIdle /\ ReplaceIdle
    /\ sanPC = "idle" /\ data = <<>> /\ output = <<>> /\ resanitized = <<>>
    /\ middlewares \in FuncMiddlewareLists
    /\ handler = <<Wrapped>>
    /\ idx = Len(middlewares) - 1
    /\ chainPC = "loop"
    /\ calls = <<>>

ChainFuncSpec == ChainFuncInit /\ [][ChainNext]_vars

\* ------------------------------------------------------------------ replaceAllStringLiteral, step by step

\* Longest s, and longest old, of the calls that are followed.
MaxText == 4
MaxOld == 3

\* Two bytes for s and old; new may bring a third.
Texts == UNION {[1..n -> {"a", "b"}] : n \in 0..MaxText}
Olds == UNION {[1..n -> {"a", "b"}] : n \in 0..MaxOld}
News == {<<>>, <<"a">>, <<"c">>, <<"b", "a">>}

\* replaceAllStringLiteral(s, old, new) is called.
ReplaceInit ==
    /\ Token = ProviderToken /\ InitSessions /\ DefaultSetup /\ InboundIdle
    /\ sanPC = "idle" /\ data = <<>> /\ output = <<>> /\ resanitized = <<>>
    /\ chainPC = "idle" /\ middlewares = <<>> /\ handler = <<>> /\ idx = 0 /\ calls = <<>>
    /\ replPC = "call"
    /\ replInput \in Texts
    /\ replOld \in Olds
    /\ replNew \in News
    /\ replS = replInput
    /\ replResult = <<>>

\* if old == "" { return s }; result := "".
ReplaceEnter ==
    /\ replPC = "call"
    /\ IF replOld = <<>>
       THEN replResult' = replS /\ replPC' = "returned"
       ELSE replResult' = <<>> /\ replPC' = "loop"
    /\ UNCHANGED <<termState, setupVars, inVars, sanVars, chainVars, replInput, replOld, replNew, replS>>

\* One iteration of the for loop: i := indexOf(s, old); return result + s if it
\* is -1; otherwise result += s[:i] + new and s = s[i+len(old):].
ReplaceIterate ==
    /\ replPC = "loop"
    /\ LET at == indexOf(replS, replOld)
       IN IF at = -1
          THEN /\ replResult' = replResult \o replS
               /\ replPC' = "returned"
               /\ UNCHANGED replS
          ELSE /\ replResult' = replResult \o SubSeq(replS, 1, at) \o replNew
               /\ replS' = SubSeq(replS, at + Len(replOld) + 1, Len(replS))
               /\ UNCHANGED replPC
    /\ UNCHANGED <<termState, setupVars, inVars, sanVars, chainVars, replInput, replOld, replNew>>

ReplaceNext == ReplaceEnter \/ ReplaceIterate

\* The call runs: a loop iteration that can be taken is taken.
ReplaceSpec == ReplaceInit /\ [][ReplaceNext]_vars /\ WF_vars(ReplaceNext)

\* ------------------------------------------------------------------ a shell that prints the envelope

\* Chunks of a shell whose program prints the text of a session_ended envelope,
\* here one symbol since none of its bytes is ESC: alone, and after a sequence
\* the sanitizer removes.
EnvelopeChunks == {<<Ended>>, <<Esc, "=", Ended>>}

\* The session manager with a pump that may also read such chunks.
ShellNext ==
    \/ LiveNext
    \/ \E s \in SessionIds, chunk \in EnvelopeChunks : PumpRead(s, processTerminalOutput(chunk))

ShellSpec == Init /\ [][ShellNext]_vars

\* ------------------------------------------------------------------ claims

\* The connection was sent the session_ended envelope.
Notified(c) ==
    \E i \in 1..Len(recv[c]) :
        \E k \in (recv[c][i][1] + 1)..recv[c][i][2] : OutputBuffer[sess[c]][k] = Ended

\* C1: once a reaper tick has read a registered session with no connections and
\* an inactivity above its timeout, the session is eventually torn down (process
\* signalled, PTY closed, Done closed, entry removed) and the tick is over.
C1_ReaperTearsDownExpired ==
    \A s \in SessionIds :
        (reaperPC = "close" /\ reaperId = s)
            ~> (/\ s \notin sessions
                /\ signals[s] > 0 /\ ptyCloses[s] > 0 /\ doneCloses[s] > 0
                /\ reaperPC = "sleep")

\* C2: a step in which the reaper's closeSession tears a session down is never
\* taken on a session with an attached connection.
C2_ReaperSparesAttached ==
    [][(reaperPC = "close" /\ reaperPC' # "close" /\ doneCloses'[reaperId] > doneCloses[reaperId])
           => Connections[reaperId] = 0]_vars

\* C2 witness: the reaper has read Connections = 0 on an expired session and is at
\* its closeSession call, and a connection that had looked the session up before
\* the tick has attached since.
C2_Witness ==
    /\ reaperPC = "close"
    /\ reaperId \in sessions
    /\ Connections[reaperId] >= 1
    /\ \E c \in Conns : sess[c] = reaperId /\ ~isNewSession[c] /\ connPC[c] = "loops"

\* C3: Done is closed, the PTY closed and the process signalled at most once per
\* session, a torn-down session is out of the registry and a registered one is not
\* torn down, and no step changes any of this once Done is closed.
C3_TeardownOnce ==
    /\ [](\A s \in SessionIds :
            /\ doneCloses[s] <= 1 /\ ptyCloses[s] <= 1 /\ signals[s] <= 1
            /\ doneCloses[s] = ptyCloses[s] /\ doneCloses[s] = signals[s]
            /\ (s \in sessions) = (s <= created /\ doneCloses[s] = 0))
    /\ [][\A s \in SessionIds :
            doneCloses[s] >= 1 =>
                /\ doneCloses'[s] = doneCloses[s]
                /\ ptyCloses'[s] = ptyCloses[s]
                /\ signals'[s] = signals[s]
                /\ s \notin sessions']_vars

\* C3 witness: two closeSession calls on the same id have returned and the session
\* was torn down once.
C3_Witness == \E s \in SessionIds : termTrue[s] >= 2 /\ doneCloses[s] = 1

\* C4: of the terminateSession calls on one id at most one returns true.
C4_OneTerminateReturnsTrue == \A s \in SessionIds : termTrue[s] <= 1

\* C5: what a reconnected connection was sent, the replay and then the deltas, is
\* a prefix of the session buffer without a gap.
C5_ReconnectGapFree ==
    \A c \in Conns :
        (connPC[c] = "loops" /\ ~isNewSession[c]) =>
            \A i \in 1..Len(recv[c]) :
                recv[c][i][1] = (IF i = 1 THEN 0 ELSE recv[c][i - 1][2])

\* C6: the slices sent to a connection, the replay included, are non-empty, in
\* non-decreasing offset order and do not overlap.
C6_NoByteTwice ==
    \A c \in Conns :
        \A i \in 1..Len(recv[c]) :
            /\ recv[c][i][1] < recv[c][i][2]
            /\ i > 1 => recv[c][i - 1][2] <= recv[c][i][1]

\* C6 witness: a reconnected connection got the replay and then a delta.
C6_Witness == \E c \in Conns : ~isNewSession[c] /\ authResp[c] = "ok" /\ Len(recv[c]) >= 2

\* C7: a handler never sends the success response and increments Connections on a
\* session whose Done is closed.
C7_NoAttachAfterTeardown ==
    [][\A c \in Conns :
           (connPC[c] = "respond" /\ connPC'[c] = "loops") => doneCloses[sess[c]] = 0]_vars

\* C8: a connection that was attached when the PTY read failed on the shell's exit,
\* and whose transport is open, has been sent the session_ended envelope when its
\* poller stops on Done.
C8_NotifiedBeforeDone ==
    \A s \in SessionIds :
        \A c \in audience[s] :
            (pumpErr[s] = "exit" /\ poller[c] = "exitDone" /\ TransportOpen(c)) => Notified(c)

\* C9: once the PTY read has failed the session is eventually out of the registry
\* with Done closed.
C9_ShellExitRemovesSession ==
    \A s \in SessionIds :
        (pump[s] = "returned" /\ pumpErr[s] # "none")
            ~> (s \notin sessions /\ doneCloses[s] > 0)

\* C10: once Done is closed the pump has eventually returned and every connection
\* of the session has detached, whatever the clients do.
C10_DoneStopsAllTasks ==
    \A s \in SessionIds :
        (doneCloses[s] > 0)
            ~> (/\ pump[s] = "returned"
                /\ \A c \in Conns : sess[c] = s => connPC[c] # "loops")

\* C11: a first message that does not decode, is not of type auth, has an empty
\* token or has a token the provider rejects is answered with one failure response
\* and the handler returns: no session is created or attached to, and the
\* registry, the buffers and the connection counts stay as they are.
C11_AuthFailureChangesNothing ==
    /\ [](\A c \in Conns : authResp[c] \in AuthErrors => connPC[c] = "closed")
    /\ [][\A c \in Conns, m \in AuthMessages, started \in BOOLEAN :
            (/\ \/ ~Decodes(m)
                \/ m.type # "auth"
                \/ m.token = ""
                \/ ~ValidataAuthToken(m.token)
             /\ AuthAndResolve(c, m, started))
            => /\ authResp[c] = "none" /\ authResp'[c] \in AuthErrors
               /\ connPC'[c] = "closed"
               /\ sess'[c] = NoSession
               /\ UNCHANGED <<sessions, created, Connections, OutputBuffer, pump,
                              shellAlive, doneCloses>>]_vars

\* C11 witness: a connection presented a token the provider rejects and was closed
\* with the failure response, and there is no session.
C11_Witness ==
    \E c \in Conns :
        /\ authResp[c] = "Invalid authentication token"
        /\ connPC[c] = "closed" /\ sessions = {} /\ created = 0

\* C12 as stated: a first message passes authentication only if its token is
\* non-empty and equal to the configured token, whatever the configured token is.
C12_OnlyConfiguredTokenPasses ==
    [][\A c \in Conns, m \in AuthMessages, started \in BOOLEAN :
          (AuthAndResolve(c, m, started) /\ authResp'[c] \notin AuthErrors)
          => (m.token # "" /\ m.token = Token)]_vars

\* C12 amended: a first message passes authentication only if its token is
\* non-empty and the configured token is empty or equal to it; an empty token, and
\* a token that differs from a non-empty configured token, get a failure response.
C12_TokenPassesIfConfiguredOrNone ==
    [][\A c \in Conns, m \in AuthMessages, started \in BOOLEAN :
          AuthAndResolve(c, m, started)
          => /\ authResp'[c] \notin AuthErrors
                  => (m.token # "" /\ (Token = "" \/ m.token = Token))
             /\ (m.token = "" \/ (Token # "" /\ m.token # Token))
                  => authResp'[c] \in AuthErrors]_vars

\* C12 witness: no token is configured and a connection was let in.
C12_Witness == Token = "" /\ \E c \in Conns : authResp[c] = "ok"

\* C13: an authenticated first message whose session id is registered resolves
\* to that session, with the registry and every buffer left as they are; with no
\* id or an unregistered one a session with an id never used before and an empty
\* buffer is registered; the success response that follows carries the resolved
\* id and leaves the buffers alone.
C13_ResolveExistingOrFresh ==
    [][\A c \in Conns :
          /\ \A m \in {a \in AuthMessages : connPC'[c] = "respond" /\ validateClientAuth(a) = ""} :
                AuthAndResolve(c, m, TRUE)
                => IF m.session_id \in sessions
                   THEN /\ sess'[c] = m.session_id /\ ~isNewSession'[c]
                        /\ UNCHANGED <<sessions, created, OutputBuffer>>
                   ELSE /\ sess'[c] \notin sessions /\ sess'[c] > created
                        /\ sessions' = sessions \cup {sess'[c]}
                        /\ OutputBuffer'[sess'[c]] = <<>>
                        /\ isNewSession'[c]
          /\ (authResp[c] = "none" /\ authResp'[c] = "ok")
                => /\ sess'[c] = sess[c] /\ sess[c] \in Disclosed'
                   /\ UNCHANGED OutputBuffer]_vars

\* C13 witness: one connection created the session, whose buffer has output, and
\* another one presented its id and was attached to it.
C13_Witness ==
    \E c, d \in Conns :
        /\ isNewSession[c] /\ authResp[c] = "ok"
        /\ ~isNewSession[d] /\ authResp[d] = "ok"
        /\ sess[d] = sess[c] /\ Len(OutputBuffer[sess[d]]) > 0

\* C14: no step shortens a session's buffer, and the lastSize of every attached
\* connection is at most the length of its session's buffer.
C14_BufferGrowsOffsetBehind ==
    /\ [](\A c \in Conns :
            connPC[c] = "loops" =>
                /\ lastSize[c] <= Len(OutputBuffer[sess[c]])
                /\ currentSize[c] <= Len(OutputBuffer[sess[c]]))
    /\ [][\A s \in SessionIds : Len(OutputBuffer'[s]) >= Len(OutputBuffer[s])]_vars

\* C14 witness: a connection has been sent a slice and the buffer has grown since.
C14_Witness ==
    \E c \in Conns :
        /\ connPC[c] = "loops" /\ lastSize[c] >= 1
        /\ Len(OutputBuffer[sess[c]]) > lastSize[c]

\* C15: Connections is never negative and is the number of handlers that have
\* attached to the session and not yet detached.
C15_ConnectionsCountsAttached ==
    \A s \in SessionIds :
        Connections[s] >= 0 /\ Connections[s] = Cardinality(Attached(s))

\* C15 witness: one connection of the session has attached and detached again and
\* another is attached.
C15_Witness ==
    \E c, d \in Conns :
        /\ connPC[c] = "closed" /\ authResp[c] = "ok"
        /\ connPC[d] = "loops" /\ sess[d] = sess[c] /\ Connections[sess[d]] = 1

\* C16: the step in which a connection detaches takes one off the session's
\* Connections and refreshes LastActive, and leaves the registry, Done, the PTY,
\* the process, the buffers and every other session's count as they are.
C16_DetachTouchesCountOnly ==
    [][\A c \in Conns :
          (connPC[c] = "loops" /\ connPC'[c] = "closed")
          => /\ Connections' = [Connections EXCEPT ![sess[c]] = @ - 1]
             /\ ~Expired'[sess[c]]
             /\ UNCHANGED <<sessions, doneCloses, ptyCloses, signals, shellAlive,
                            OutputBuffer, pump>>]_vars

\* C16 witness: the last connection of a session has detached and the session is
\* registered with Done open.
C16_Witness ==
    \E c \in Conns :
        /\ connPC[c] = "closed" /\ authResp[c] = "ok"
        /\ sess[c] \in sessions /\ Connections[sess[c]] = 0 /\ doneCloses[sess[c]] = 0

\* C17: whenever a terminateSession call started by a connection's terminate
\* request exists, and so before the teardown it causes, the terminate_response
\* has been written to that connection.
C17_AckBeforeTeardown ==
    \A s \in SessionIds : \A c \in termFrom[s] : termResp[c] >= 1 /\ sess[c] = s

\* C17 witness: a session was torn down on a client's terminate request (the
\* shell-exit notifier never ran) and the client has its terminate_response.
C17_Witness ==
    \E s \in SessionIds :
        /\ doneCloses[s] = 1 /\ notifier[s] = "none"
        /\ \E c \in termFrom[s] : termResp[c] = 1

\* C18: a step in which a connection's read or write fails, or in which a
\* connection whose read failed detaches, leaves the registry, Done, the PTY and
\* the process as they are and changes nothing of any other connection.
C18_TransportErrorStaysLocal ==
    [][\A c \in Conns :
          (\/ reader[c] = "read" /\ reader'[c] = "readErr"
           \/ poller[c] = "write" /\ poller'[c] = "exitWrite"
           \/ reader[c] = "readErr" /\ connPC[c] = "loops" /\ connPC'[c] = "closed")
          => /\ UNCHANGED <<sessions, doneCloses, ptyCloses, signals, shellAlive>>
             /\ \A d \in Conns \ {c} :
                   /\ lastSize'[d] = lastSize[d] /\ currentSize'[d] = currentSize[d]
                   /\ connPC'[d] = connPC[d] /\ poller'[d] = poller[d]
                   /\ reader'[d] = reader[d] /\ recv'[d] = recv[d]]_vars

\* C18 witness: a connection's transport failed and it has detached, while the
\* session is registered and another connection goes on behind its offset.
C18_Witness ==
    \E c, d \in Conns :
        /\ connPC[c] = "closed" /\ authResp[c] = "ok"
        /\ connPC[d] = "loops" /\ sess[d] = sess[c] /\ sess[d] \in sessions
        /\ doneCloses[sess[d]] = 0 /\ lastSize[d] >= 1 /\ reader[d] = "read"

\* C19: when pty.Start fails for an authenticated first message that needs a new
\* session, the registry stays as it is, no pump is started, and the handler
\* answers with the failure response and returns, never with a success response.
C19_StartFailureRegistersNothing ==
    /\ [](\A c \in Conns : authResp[c] = StartFailed => connPC[c] = "closed")
    /\ [][\A c \in Conns, m \in AuthMessages :
            (/\ validateClientAuth(m) = ""
             /\ m.session_id \notin sessions
             /\ AuthAndResolve(c, m, FALSE))
            => /\ authResp'[c] = StartFailed /\ connPC'[c] = "closed"
               /\ UNCHANGED <<sessions, created, pump, shellAlive, Connections,
                              OutputBuffer>>]_vars

\* C19 witness: a handler answered that the terminal could not be created, and no
\* session is registered.
C19_Witness == sessions = {} /\ \E c \in Conns : authResp[c] = StartFailed

\* C20 as stated: handling a message that is valid JSON has none of the effects of
\* a PTY write: LastActive is not refreshed and the inbound loop does not end.
C20_JSONNeverInput ==
    [][\A c \in Conns, m \in ClientMessages :
          (m.json /\ ReaderMessage(c, m))
          => Expired'[sess[c]] = Expired[sess[c]] /\ reader'[c] = reader[c]]_vars

\* C20 amended: handling a message that json.Unmarshal decodes into a Message has
\* none of the effects of a PTY write.
C20_DecodedNeverInput ==
    [][\A c \in Conns, m \in ClientMessages :
          (Decodes(m) /\ ReaderMessage(c, m))
          => Expired'[sess[c]] = Expired[sess[c]] /\ reader'[c] = reader[c]]_vars

\* C20 witness: the inbound loop handled a decoded terminate as a control message
\* on an idle session and reads on, the session still counted as idle.
C20_Witness ==
    \E c \in Conns :
        termResp[c] >= 1 /\ reader[c] = "read" /\ Expired[sess[c]]

\* C21: sanitizing what the sanitizer returned changes nothing:
\* processTerminalOutput(processTerminalOutput(x)) = processTerminalOutput(x).
C21_SanitizeIdempotent == sanPC = "twice" => resanitized = output

\* The names of a list of middlewares, in order.
Names(ms) == [k \in 1..Len(ms) |-> ms[k].name]

\* The middlewares a request reaches: those up to the first that does not call next.
Reached(ms) ==
    LET stops == {k \in 1..Len(ms) : ~ms[k].next}
    IN IF stops = {} THEN ms
       ELSE SubSeq(ms, 1, CHOOSE k \in stops : \A j \in stops : k <= j)

\* C22 as stated: for every request the middlewares run in the order they were
\* passed, each once, and then the wrapped handler runs once.
C22_AllRunInOrderThenHandler ==
    chainPC = "served" => calls = Names(middlewares) \o <<Wrapped.name>>

\* C22 amended: the middlewares run in the order they were passed, each at most
\* once and each only if all before it called next; the wrapped handler runs once,
\* after them, if every middleware called next, and otherwise not at all.
C22_RunInOrderWhileNextIsCalled ==
    chainPC = "served" =>
        calls = Names(Reached(middlewares))
                \o (IF Reached(middlewares) = middlewares /\ \A k \in 1..Len(middlewares) :
                                                              middlewares[k].next
                    THEN <<Wrapped.name>> ELSE <<>>)

\* C22 witness: three different middlewares that all call next have run, first to
\* last, and then the handler.
C22_Witness ==
    /\ chainPC = "served"
    /\ Names(middlewares) = <<"logger", "cors", "auth">>
    /\ calls = <<"logger", "cors", "auth", "handler">>

\* C23: whenever a task holds sessionsLock it eventually releases it, so that the
\* tasks waiting for the lock proceed.
C23_RegistryLockReleased == (sessionsLock # "free") ~> (sessionsLock = "free")

\* C24: the only task that keeps sessionsLock over several steps is the reaper
\* (every other critical section of sessionsLock is one step that touches no
\* session lock); the step in which it takes a session's lock to read LastActive
\* and Connections is never taken while it holds sessionsLock.
C24_NoSessionLockUnderRegistryLock ==
    [][\A s \in SessionIds : ReaperVisit(s) => sessionsLock # "reaper"]_vars

\* C25: the inbound goroutine never writes the terminate_response to a connection
\* while the connection's poller is in its conn.WriteMessage of a delta.
C25_OneWriterPerConnection ==
    [][\A c \in Conns : termResp'[c] > termResp[c] => poller[c] # "write"]_vars

\* The number of session_ended envelopes in the session's buffer.
Envelopes(s) == Cardinality({k \in 1..Len(OutputBuffer[s]) : OutputBuffer[s][k] = Ended})

C27_BufferFrozenAfterDone ==
    [][\A s \in SessionIds : doneCloses[s] > 0 => OutputBuffer'[s] = OutputBuffer[s]]_vars

\* C28: handling a terminate message whose session_id is not the connection's
\* session id starts no terminateSession call and tears nothing down, writes no
\* terminate_response, and has none of the effects of a PTY write; the message is
\* logged.
C28_ForeignTerminateIgnored ==
    [][\A c \in Conns, m \in ClientMessages :
          (/\ Decodes(m) /\ m.type = "terminate" /\ m.session_id # sess[c]
           /\ ReaderMessage(c, m))
          => /\ UNCHANGED <<sessions, doneCloses, ptyCloses, signals, termVars, ackVars>>
             /\ Expired'[sess[c]] = Expired[sess[c]] /\ reader'[c] = reader[c]
             /\ m \in logged']_vars

\* C28 witness: a terminate carrying nobody's id was handled on an idle session:
\* the session is registered and still idle, no terminateSession call exists, and
\* the connection reads on without a terminate_response.
C28_Witness ==
    \E c \in Conns :
        /\ \E m \in logged : m.type = "terminate" /\ m.session_id = ForeignSession
        /\ reader[c] = "read" /\ sess[c] \in sessions /\ Expired[sess[c]]
        /\ Terminates(sess[c]) = 0 /\ termResp[c] = 0 /\ doneCloses[sess[c]] = 0

\* C29: when the inbound loop handles the terminate request of the bundled web
\* client for the connection's session, it writes a terminate_response and starts
\* the terminateSession call that tears the session down.
C29_ClientTerminateAccepted ==
    [][\A c \in Conns :
          ReaderMessage(c, Unmarshal(TerminateClick(sess[c])))
          => /\ termResp'[c] = termResp[c] + 1
             /\ termWaiting'[sess[c]] = termWaiting[sess[c]] + 1]_vars

Undecoded(m) == ~Decodes(m)

\* The messages the followed loop has dealt with so far.
Handled == SubSeq(inbox, 1, IF inPC = "handle" THEN taken - 1 ELSE taken)

\* C31, as claimed: every message that does not decode, once the loop has dealt
\* with it, has been written to the PTY exactly once, unmodified and in the order
\* received, and has set LastActive.
C31_UndecodedAllWritten ==
    /\ written = SelectSeq(Handled, Undecoded)
    /\ stamped = Len(written)

\* C31, amended: every message that does not decode sets LastActive; while the PTY
\* is open each is written exactly once, unmodified and in the order received;
\* the one that meets a closed PTY is not written and ends the loop, so the PTY
\* has received all of them but at most the last.
C31_UndecodedWrittenWhilePtyOpen ==
    LET raw == SelectSeq(Handled, Undecoded)
    IN /\ stamped = Len(raw)
       /\ ptyOpen => written = raw
       /\ Len(written) <= Len(raw)
       /\ written = SubSeq(raw, 1, Len(written))
       /\ Len(written) < Len(raw) => Len(written) = Len(raw) - 1 /\ inPC = "exit" /\ ~ptyOpen

\* Two different payloads written around a control message that was not.
C31_Witness ==
    /\ Len(written) = 2 /\ written[1] # written[2]
    /\ Len(Handled) = 3 /\ Decodes(inbox[2])

\* The handler returned at the failed upgrade: nothing was read from or written
\* to the connection and no session was looked up, created or attached.
RefusedAtUpgrade(c) ==
    /\ connPC[c] = "closed" /\ authResp[c] = "none" /\ sess[c] = NoSession
    /\ poller[c] = "none" /\ reader[c] = "none" /\ recv[c] = <<>>
    /\ sessions = {} /\ created = 0

\* C32, as claimed: a request whose Origin is not in the allowed-origin set is
\* never upgraded, so no authentication or session step runs for it.
C32_UpgradeOnlyFromAllowedOrigin ==
    \A c \in LiveConns :
        Origin[c] \notin AllowedOrigins => connPC[c] = "request" \/ RefusedAtUpgrade(c)

\* C32, amended: a request that carries an Origin header whose value is not in
\* the allowed-origin set is never upgraded, so no authentication or session step
\* runs for it; a request without an Origin header is upgraded like one from an
\* allowed origin.
C32_UpgradeRefusedForForeignOrigin ==
    \A c \in LiveConns :
        /\ (Origin[c] # NoOrigin /\ Origin[c] \notin AllowedOrigins)
              => connPC[c] = "request" \/ RefusedAtUpgrade(c)
        /\ (Origin[c] = NoOrigin \/ Origin[c] \in AllowedOrigins)
              => ~RefusedAtUpgrade(c)

\* An upgrade refused for an origin that another deployment allows.
C32_Witness ==
    \E c \in LiveConns :
        Origin[c] = CustomOrigin /\ AllowedOrigins = DefaultOrigins /\ RefusedAtUpgrade(c)

\* C33: an envelope is in a session's buffer, or in what a connection has been
\* sent, only once the session's notifier has run: the bytes of the shell never
\* put one there.
C33_EnvelopeOnlyFromNotifier ==
    /\ \A s \in SessionIds : Envelopes(s) > 0 => notifier[s] = "done"
    /\ \A c \in Conns : (sess[c] \in SessionIds /\ Notified(c)) => notifier[sess[c]] = "done"

\* The exact occurrences of denylisted sequences in x: <<first byte, last byte>>.
Occurrences(x) ==
    UNION {{<<k, k + Len(replacePatterns[p]) - 1>> :
               k \in {j \in 1..(Len(x) - Len(replacePatterns[p]) + 1) :
                         SubSeq(x, j, j + Len(replacePatterns[p]) - 1) = replacePatterns[p]}} :
           p \in DOMAIN replacePatterns}

\* x without the bytes of the occurrences in picked.
Without(x, picked) ==
    LET Kept(k) == \A o \in picked : k < o[1] \/ k > o[2]
        RECURSIVE keep(_)
        keep(k) == IF k > Len(x) THEN <<>>
                   ELSE (IF Kept(k) THEN <<x[k]>> ELSE <<>>) \o keep(k + 1)
    IN keep(1)

\* C34: the output is the input without some of its exact occurrences of
\* denylisted sequences, every other byte kept in place; an input without any
\* occurrence is returned unchanged.
C34_OnlyExactOccurrencesRemoved ==
    sanPC # "chunk" =>
        /\ \E picked \in SUBSET Occurrences(data) : output = Without(data, picked)
        /\ Occurrences(data) = {} => output = data

\* The denylist with the patterns at i and j exchanged.
Swapped(i, j) ==
    [k \in DOMAIN replacePatterns |->
        replacePatterns[IF k = i THEN j ELSE IF k = j THEN i ELSE k]]

\* The range loop of processTerminalOutput over another list, from pattern k on.
RECURSIVE replaceIn(_, _, _)
replaceIn(str, patterns, k) ==
    IF k > Len(patterns) THEN str
    ELSE replaceIn(replaceAllStringLiteral(str, patterns[k], <<>>), patterns, k + 1)

\* C35: the output does not depend on the order of the denylist: the list with
\* any two patterns exchanged gives the output the list of the source gives.
C35_OrderIndependent ==
    sanPC # "chunk" =>
        \A i \in DOMAIN replacePatterns, j \in DOMAIN replacePatterns :
            replaceIn(data, Swapped(i, j), 1) = output


\* C36: what a reconnected client is sent starts with the buffer as it was at the
\* reconnect, and no later frame goes back into it: every later slice starts at
\* or behind the end of the replay.
C36_ReplayOnceThenNewer ==
    \A c \in LiveConns :
        (~isNewSession[c] /\ authResp[c] = "ok") =>
            \A i \in 2..Len(recv[c]) : recv[c][i][1] >= recv[c][1][2]

\* The middlewares that were converted.
Originals(fs) == [k \in 1..Len(fs) |-> fs[k].converted]

\* C37, as claimed: for every request to the result of ChainFunc every converted
\* middleware runs once, in the order passed, and then the handler function once.
C37_ConvertedAllRunThenHandler ==
    chainPC = "served" => calls = Names(Originals(middlewares)) \o <<Wrapped.name>>

\* C37, amended: the result of ChainFunc on converted middlewares runs what Chain
\* on the original middlewares runs: the middlewares in the order passed, each at
\* most once and only while those before it call next, and then the handler
\* function once if all of them called next.
C37_ConvertedRunLikeChain ==
    chainPC = "served" =>
        LET ms == Originals(middlewares)
        IN calls = Names(Reached(ms))
                   \o (IF \A k \in 1..Len(ms) : ms[k].next THEN <<Wrapped.name>> ELSE <<>>)

\* Three converted middlewares that call next have run, first to last, and then
\* the handler function.
C37_Witness ==
    /\ chainPC = "served"
    /\ Len(middlewares) = 3
    /\ Names(Originals(middlewares)) = <<"logger", "cors", "auth">>
    /\ calls = <<"logger", "cors", "auth", "handler">>

\* The smallest 0-based index at which substr occurs in str, or -1 without one.
LeastIndex(str, substr) ==
    LET hits == {k \in 0..(Len(str) - Len(substr)) :
                    SubSeq(str, k + 1, k + Len(substr)) = substr}
    IN IF hits = {} THEN -1 ELSE CHOOSE k \in hits : \A j \in hits : k <= j

\* Leftmost, non-overlapping replace-all in one pass over str from byte k on: an
\* occurrence that starts at k is replaced and the pass goes on behind it, any
\* other byte is copied.
RECURSIVE ReplacedFrom(_, _, _, _)
ReplacedFrom(str, old, new, k) ==
    IF k > Len(str) THEN <<>>
    ELSE IF k + Len(old) - 1 <= Len(str) /\ SubSeq(str, k, k + Len(old) - 1) = old
         THEN new \o ReplacedFrom(str, old, new, k + Len(old))
         ELSE <<str[k]>> \o ReplacedFrom(str, old, new, k + 1)

\* C38: a call of replaceAllStringLiteral returns; with an empty old it returns s
\* unchanged, and otherwise the leftmost, non-overlapping, single-pass replace-all
\* of old by new in s; indexOf gives the smallest index of an occurrence, or -1 if
\* there is none, also for a substr longer than the string.
C38_ReplaceAllLiteral ==
    /\ <>(replPC = "returned")
    /\ [](replPC = "returned" =>
            /\ replOld = <<>> => replResult = replInput
            /\ replOld # <<>> => replResult = ReplacedFrom(replInput, replOld, replNew, 1)
            /\ replResult = replaceAllStringLiteral(replInput, replOld, replNew))
    /\ [](/\ indexOf(replS, replOld) = LeastIndex(replS, replOld)
          /\ indexOf(replInput, replOld) = LeastIndex(replInput, replOld)
          /\ Len(replOld) > Len(replS) /\ replOld # <<>> => indexOf(replS, replOld) = -1)

\* A call has returned after replacing the first of two overlapping occurrences
\* and copying what was left of the second.
C38_Witness ==
    /\ replPC = "returned"
    /\ replInput = <<"a", "a", "a">> /\ replOld = <<"a", "a">> /\ replNew = <<"c">>
    /\ replResult = <<"c", "a">>
====
